---- MODULE Spec2Model ----
(***************************************************************************)
(* Model of src/script.js: the PDF -> PPTX conversion client.  One action  *)
(* per event handler / continuation of an async function.  The JavaScript  *)
(* event loop runs one handler to its next await, so every action below    *)
(* is one such run-to-completion step.                                     *)
(***************************************************************************)
EXTENDS Integers, Sequences, FiniteSets, TLC

\* ------------------------------------------------------------------ bounds
MaxFiles   == 2   \* longest files list explored
MaxBatch   == 2   \* longest batch handed to addFiles
MaxRounds  == 2   \* conversion rounds (submit requests) per behaviour
MaxResults == 2   \* longest results array in a submit response
MaxTicks   == 2   \* timer callbacks suspended at a fetch at once
MaxCompleted == 3 \* largest value of the closure counter `completed` explored
MaxPolls   == 1   \* submit responses per behaviour that start a poll loop
MaxDownloads == 1 \* clicks on one download link per behaviour

\* ------------------------------------------------------------------ values
PDF == "application/pdf"
Names == {"a.pdf"}
Sizes == {1, 2}
Types == {PDF, "text/plain"}
\* the File objects handed to addFiles: PDFs of either size, and a non-PDF
Candidates == [name : Names, size : Sizes, type : {PDF}] \cup
              [name : Names, size : {1}, type : Types]

NoFileId == ""                 \* result.fileId absent (falsy)
FileIds == {NoFileId, "id"}
SubmitStatuses == {"success", "pending"}        \* status of a result in the submit response
StatusAnswers == {"pending", "completed", "success"}  \* statusData.status
QueryFailed == "network-error"                  \* fetch/json of a status query throws
SubmitOutcomes == {"ok", "http-error", "body-error", "network-error"}
NaN == -1                      \* Math.round(0/0 * 100)

Rounds == 1..MaxRounds

SeqsUpTo(S, n) == UNION {[1..k -> S] : k \in 0..n}

VARIABLES
  files,        \* appState.files
  converting,   \* appState.converting
  resultsRef,   \* appState.results: 0 = a fresh empty array, r = the array of round r
  heap,         \* heap[r]: the results array object of round r's submit response
  submit,       \* submit[r]: fetch(/convert) of round r: "none" (not issued),
                \* "inflight" (awaited), or the outcome it settled with
  path,         \* path[r]: what processConvertedFiles of round r did: "none" (not
                \* called), "fast" (returned at line 234), "polled" (called setInterval)
  rounds,       \* number of submit requests issued so far
  timer,        \* timer[r]: the setInterval of round r is active
  completed,    \* completed[r]: closure variable of processConvertedFiles, round r
  ticks,        \* ticks[r][i]: timer callbacks of round r suspended at the fetch for results[i]
  display,      \* style.display of uploadContainer / progressSection / resultsSection
  percentage,   \* progressStatus.textContent / progressBar.style.width
  buttons,      \* clearBtn.disabled / convertBtn.disabled
  request,      \* request[r]: the files in the body of round r's fetch(/convert)
                \* while it is outstanding
  downloads,    \* downloads[id]: clicks on a link to /download/<id> so far
  staleTimers   \* history: rounds whose interval was active when resetToUpload ran

vars == <<files, converting, resultsRef, heap, submit, path, rounds, timer, completed,
          ticks, display, percentage, buttons, request, downloads, staleTimers>>

\* appState.results as a value
Results == IF resultsRef = 0 THEN <<>> ELSE heap[resultsRef]

\* ------------------------------------------------------------------ helpers
Min(a, b) == IF a < b THEN a ELSE b
Max(a, b) == IF a > b THEN a ELSE b

\* Array.prototype.splice(start, deleteCount) on a 0-based array, as a value
SpliceStart(len, start) == IF start < 0 THEN Max(len + start, 0) ELSE Min(start, len)

Splice(arr, start, deleteCount) ==
  LET len == Len(arr)
      s   == SpliceStart(len, start)
      d   == Min(Max(deleteCount, 0), len - s)
  IN  [k \in 1..(len - d) |-> IF k <= s THEN arr[k] ELSE arr[k + d]]

\* the media type is not looked at
IsPdfMut(file) == TRUE

IsPdf(file) == file.type = PDF

SameFile(existingFile, file) ==
  existingFile.name = file.name /\ existingFile.size = file.size

\* the duplicate check is skipped
IsNewFileMut(existing, file) == TRUE

IsNewFile(existing, file) ==
  ~ \E k \in 1..Len(existing) : SameFile(existing[k], file)

\* the convert button ignores appState.converting
UpdateActionButtonsMut(f, c) ==
  [clear |-> ~(Len(f) > 0), convert |-> ~(Len(f) > 0)]

\* updateActionButtons
UpdateActionButtons(f, c) ==
  [clear |-> ~(Len(f) > 0), convert |-> ~(Len(f) > 0) \/ c]

\* updateProgress: Math.round((completed / total) * 100)
Percentage(c, total) ==
  IF total = 0 THEN NaN ELSE (200 * c + total) \div (2 * total)

\* ------------------------------------------------------------------ initial state
EmptyTicks == [i \in 1..MaxResults |-> 0]

Init ==
  /\ files = <<>>
  /\ converting = FALSE
  /\ resultsRef = 0
  /\ heap = [r \in Rounds |-> <<>>]
  /\ submit = [r \in Rounds |-> "none"]
  /\ path = [r \in Rounds |-> "none"]
  /\ rounds = 0
  /\ timer = [r \in Rounds |-> FALSE]
  /\ completed = [r \in Rounds |-> 0]
  /\ ticks = [r \in Rounds |-> EmptyTicks]
  /\ display = [upload |-> TRUE, progress |-> FALSE, results |-> FALSE]
  /\ percentage = 0                                 \* as resetToUpload leaves it
  /\ buttons = UpdateActionButtons(<<>>, FALSE)    \* DOMContentLoaded, line 430
  /\ request = [r \in Rounds |-> <<>>]
  /\ downloads = [id \in FileIds |-> 0]
  /\ staleTimers = {}

\* ------------------------------------------------------------------ file management
pollVars == <<heap, submit, path, rounds, timer, completed, ticks, request, downloads>>

\* the intervals that are active
ActiveTimers == {r \in Rounds : timer[r]}

AddFiles(batch) ==
  LET pdfFiles == SelectSeq(batch, IsPdf)
      IsNew(file) == IsNewFile(files, file)
      newFiles == SelectSeq(pdfFiles, IsNew)
  IN  /\ Len(files) + Len(newFiles) <= MaxFiles
      /\ IF Len(pdfFiles) = 0 \/ Len(newFiles) = 0
         THEN UNCHANGED <<files, buttons>>
         ELSE /\ files' = files \o newFiles
              /\ buttons' = UpdateActionButtons(files', converting)
      /\ UNCHANGED <<converting, resultsRef, display, percentage, staleTimers>>
      /\ UNCHANGED pollVars

RemoveFile(index) ==
  /\ files' = Splice(files, index, 1)
  /\ buttons' = UpdateActionButtons(files', converting)
  /\ UNCHANGED <<converting, resultsRef, display, percentage, staleTimers>>
  /\ UNCHANGED pollVars

\* appState.results is not cleared
ClearAllFilesMut(confirmed) ==
  /\ IF Len(files) = 0 \/ ~confirmed
     THEN UNCHANGED <<files, buttons>>
     ELSE /\ files' = <<>>
          /\ buttons' = UpdateActionButtons(files', converting)
  /\ UNCHANGED <<converting, resultsRef, display, percentage, staleTimers>>
  /\ UNCHANGED pollVars

\* clearAllFiles; `confirmed` is the answer of confirm(), which is called only
\* when files is not empty
ClearAllFiles(confirmed) ==
  /\ IF Len(files) = 0 \/ ~confirmed
     THEN UNCHANGED <<files, resultsRef, buttons>>
     ELSE /\ files' = <<>>
          /\ resultsRef' = 0
          /\ buttons' = UpdateActionButtons(files', converting)
  /\ UNCHANGED <<converting, display, percentage, staleTimers>>
  /\ UNCHANGED pollVars

\* ------------------------------------------------------------------ conversion
\* resetToUpload: the assignments to appState and to the DOM
ResetToUpload ==
  /\ files' = <<>>
  /\ resultsRef' = 0
  /\ converting' = FALSE
  /\ display' = [upload |-> TRUE, progress |-> FALSE, results |-> FALSE]
  /\ percentage' = 0
  /\ buttons' = UpdateActionButtons(files', converting')
  /\ staleTimers' = staleTimers \cup ActiveTimers

\* finishConversion
FinishConversion ==
  /\ converting' = FALSE
  /\ display' = [display EXCEPT !.progress = FALSE, !.results = TRUE]
  /\ buttons' = UpdateActionButtons(files, converting')

\* click on backBtn: the listener is registered unconditionally (line 38), so
\* the reset command can arrive in any state
BackClick ==
  /\ ResetToUpload
  /\ UNCHANGED pollVars

\* startConversion, and convertFilesViaAPI up to its await of fetch(/convert)
StartConversion ==
  IF Len(files) = 0 \/ converting
  THEN UNCHANGED vars
  ELSE /\ rounds < MaxRounds
       /\ converting' = TRUE
       /\ resultsRef' = 0
       /\ display' = [upload |-> FALSE, progress |-> TRUE, results |-> FALSE]
       /\ buttons' = UpdateActionButtons(files, converting')
       /\ rounds' = rounds + 1
       /\ submit' = [submit EXCEPT ![rounds + 1] = "inflight"]
       /\ request' = [request EXCEPT ![rounds + 1] = files]
       /\ UNCHANGED <<files, percentage, heap, path, timer, completed, ticks,
                       downloads, staleTimers>>

\* the fast path tests the wrong status word
AllSuccessMut(results) == \A k \in 1..Len(results) : results[k].status = "completed"

\* results.every(r => r.status === 'success')
AllSuccess(results) == \A k \in 1..Len(results) : results[k].status = "success"

\* the guard of a status query, script.js line 242
NeedsQuery(result) == result.status # "success" /\ result.fileId # NoFileId

\* the test that increments `completed`, script.js line 250
CountsAsCompleted(status) == status = "completed"

\* the test that ends the poll loop, script.js line 261
LoopDone(c, total) == c = total

\* the body's status field is not checked (no else branch at line 215)
SubmitFailedMut(outcome) == outcome \in {"http-error", "network-error"}

\* what the catch block of convertFilesViaAPI receives: !response.ok (205),
\* data.status !== 'success' (212, 215), or fetch itself rejecting
SubmitFailed(outcome) == outcome # "ok"

ResultRecords == [status : SubmitStatuses, fileId : FileIds]

\* number of setInterval calls so far
PollsStarted == Cardinality({r \in Rounds : path[r] = "polled"})

\* continuation of convertFilesViaAPI after fetch(/convert), and processConvertedFiles
SubmitResponse(r, outcome, results) ==
  /\ submit[r] = "inflight"
  /\ submit' = [submit EXCEPT ![r] = outcome]
  /\ request' = [request EXCEPT ![r] = <<>>]
  /\ UNCHANGED downloads
  /\ IF SubmitFailed(outcome)
     THEN /\ ResetToUpload
          /\ UNCHANGED <<heap, path, rounds, timer, completed, ticks>>
     ELSE /\ heap' = [heap EXCEPT ![r] = results]
          /\ resultsRef' = r
          /\ IF AllSuccess(results)
             THEN /\ path' = [path EXCEPT ![r] = "fast"]
                  /\ percentage' = Percentage(Len(results), Len(results))
                  /\ FinishConversion
                  /\ UNCHANGED timer
             ELSE /\ PollsStarted < MaxPolls
                  /\ path' = [path EXCEPT ![r] = "polled"]
                  /\ timer' = [timer EXCEPT ![r] = TRUE]
                  /\ UNCHANGED <<converting, display, percentage, buttons>>
          /\ UNCHANGED <<files, rounds, completed, ticks, staleTimers>>

\* number of interval callbacks suspended at a fetch
InFlight ==
  Cardinality({<<r, i, n>> \in Rounds \X (1..MaxResults) \X (1..MaxTicks) : n <= ticks[r][i]})

\* The for loop of the interval callback from index `from` on (1-based), with
\* the array, counter and suspended callbacks as they are at that point: it
\* suspends at the next status query, or runs to the end of the callback
\* (updateProgress, and clearInterval + finishConversion when the loop is done).
RunCallback(r, from, h, c, tk) ==
  LET arr   == h[r]
      total == Len(arr)
      cand  == {j \in from..total : NeedsQuery(arr[j])}
  IN  /\ heap' = h
      /\ completed' = [completed EXCEPT ![r] = c]
      /\ UNCHANGED <<files, resultsRef, submit, path, rounds, request, downloads, staleTimers>>
      /\ IF cand # {}
         THEN LET next == CHOOSE j \in cand : \A k \in cand : j <= k
              IN  /\ ticks' = [ticks EXCEPT ![r] = [tk EXCEPT ![next] = @ + 1]]
                  /\ UNCHANGED <<timer, converting, display, percentage, buttons>>
         ELSE /\ ticks' = [ticks EXCEPT ![r] = tk]
              /\ percentage' = Percentage(c, total)
              /\ IF LoopDone(c, total)
                 THEN /\ timer' = [timer EXCEPT ![r] = FALSE]
                      /\ FinishConversion
                 ELSE UNCHANGED <<timer, converting, display, buttons>>

\* the interval fires: the callback runs from i = 0 to its first await
TimerFire(r) ==
  /\ timer[r]
  /\ InFlight < MaxTicks
  /\ RunCallback(r, 1, heap, completed[r], ticks[r])

\* a status query for results[i] of round r settles: the callback suspended
\* there resumes (lines 245-255) and runs to its next await or to its end
StatusResponse(r, i, answer) ==
  /\ ticks[r][i] > 0
  /\ LET tk == [ticks[r] EXCEPT ![i] = @ - 1]
     IN  IF answer = QueryFailed
         THEN RunCallback(r, i + 1, heap, completed[r], tk)
         ELSE /\ CountsAsCompleted(answer) => completed[r] < MaxCompleted
              /\ RunCallback(r, i + 1,
                             [heap EXCEPT ![r][i].status = answer],
                             IF CountsAsCompleted(answer) THEN completed[r] + 1
                                                          ELSE completed[r],
                             tk)

\* the guard is missing
HasFileIdMut(result) == TRUE

\* downloadFile's guard, script.js line 306
HasFileId(result) == result.fileId # NoFileId

\* downloadFile(index), index 0-based.  For an index with no result,
\* `result.fileId` throws a TypeError before anything is done.
DownloadFile(index) ==
  /\ IF index < Len(Results) /\ HasFileId(Results[index + 1])
     THEN /\ downloads[Results[index + 1].fileId] < MaxDownloads
          /\ downloads' = [downloads EXCEPT ![Results[index + 1].fileId] = @ + 1]
     ELSE UNCHANGED downloads
  /\ UNCHANGED <<files, converting, resultsRef, display, percentage, buttons, staleTimers>>
  /\ UNCHANGED <<heap, submit, path, rounds, timer, completed, ticks, request>>

Next ==
  \/ \E batch \in SeqsUpTo(Candidates, MaxBatch) \ {<<>>} : AddFiles(batch)
  \/ \E index \in (0 - MaxFiles - 1)..(MaxFiles + 1) : RemoveFile(index)
  \/ \E confirmed \in BOOLEAN : ClearAllFiles(confirmed)
  \/ StartConversion
  \/ \E r \in Rounds, outcome \in SubmitOutcomes,
        results \in SeqsUpTo(ResultRecords, MaxResults) :
          SubmitResponse(r, outcome, results)
  \/ \E r \in Rounds : TimerFire(r)
  \/ \E r \in Rounds, i \in 1..MaxResults, answer \in StatusAnswers \cup {QueryFailed} :
          StatusResponse(r, i, answer)
  \/ BackClick

Spec == Init /\ [][Next]_vars

\* ------------------------------------------------------------------ handlers
\* The handlers a user triggers, with the submit responses that decide what
\* appState.results holds.  downloadFile assigns to nothing in appState or in
\* the DOM state above, so it cannot change what Next can do; it is examined
\* here, together with the contracts of the other handlers, which read
\* nothing that an interval callback writes except appState.converting.
HandlerNext ==
  \/ \E batch \in SeqsUpTo(Candidates, MaxBatch) \ {<<>>} : AddFiles(batch)
  \/ \E index \in (0 - MaxFiles - 1)..(MaxFiles + 1) : RemoveFile(index)
  \/ \E confirmed \in BOOLEAN : ClearAllFiles(confirmed)
  \/ StartConversion
  \/ \E r \in Rounds, outcome \in SubmitOutcomes,
        results \in SeqsUpTo(ResultRecords, MaxResults) :
          SubmitResponse(r, outcome, results)
  \/ BackClick
  \/ \E index \in 0..MaxResults : DownloadFile(index)

HandlerSpec == Init /\ [][HandlerNext]_vars

\* ------------------------------------------------------------------ liveness
\* A service that accepts every submission, gives every result a fileId and
\* answers every status query with a successful terminal status; timers
\* fire and responses are delivered.
LiveResultRecords == [status : SubmitStatuses, fileId : FileIds \ {NoFileId}]
TerminalAnswers == {"completed", "success"}

LiveSubmit ==
  \E r \in Rounds, results \in SeqsUpTo(LiveResultRecords, MaxResults) :
      SubmitResponse(r, "ok", results)
LiveFire == \E r \in Rounds : TimerFire(r)
LiveStatus ==
  \E r \in Rounds, i \in 1..MaxResults, answer \in TerminalAnswers :
      StatusResponse(r, i, answer)

LiveNext ==
  \/ \E batch \in SeqsUpTo(Candidates, 1) \ {<<>>} : AddFiles(batch)
  \/ StartConversion
  \/ LiveSubmit
  \/ LiveFire
  \/ LiveStatus

LiveSpec ==
  Init /\ [][LiveNext]_vars
       /\ WF_vars(LiveSubmit) /\ WF_vars(LiveFire) /\ WF_vars(LiveStatus)

\* ------------------------------------------------------------------ claims
\* the status words that mean a result is finished: 'success' in the submit
\* response (line 231), 'completed' in a status response (line 250)
SuccessTerminal == {"success", "completed"}

AllTerminal(results) ==
  \A k \in 1..Len(results) : results[k].status \in SuccessTerminal

\* number of callbacks of round r suspended at a fetch
Suspended(r) ==
  Cardinality({<<i, n>> \in (1..MaxResults) \X (1..MaxTicks) : n <= ticks[r][i]})

\* a step of round r's interval callback
TimerStep(r) ==
  \/ TimerFire(r)
  \/ \E i \in 1..MaxResults, answer \in StatusAnswers \cup {QueryFailed} :
        StatusResponse(r, i, answer)

\* a step in which round r's callback issues the status query for results[i]
QueryIssued(r, i) == ticks'[r][i] > ticks[r][i]

\* a step in which a callback of round r runs to its end (line 259 on)
CallbackEnds(r) ==
  \/ TimerFire(r) /\ ticks' = ticks
  \/ TimerStep(r) /\ Suspended(r)' < Suspended(r)

\* C1: whenever a callback of the poll loop stops the interval and calls
\* finishConversion, every result of the round has a successful terminal status.
C1_DoneOnlyWhenAllTerminal ==
  [][\A r \in Rounds : (timer[r] /\ ~timer'[r]) => AllTerminal(heap'[r])]_vars

\* C2: once a poll loop has started, and the service answers every status
\* query with a successful terminal status, the interval is eventually
\* stopped and converting is false.
C2_PollEventuallyDone ==
  \A r \in Rounds : (path[r] = "polled") ~> (~timer[r] /\ ~converting)

\* C3: once resetToUpload has run while round r's interval was active, that
\* interval issues no status query and none of its steps changes
\* appState.results, converting or the visible sections.
C3_NoTimerStepAfterReset ==
  [][\A r \in staleTimers :
        /\ \A i \in 1..MaxResults : ~QueryIssued(r, i)
        /\ TimerStep(r) => /\ Results' = Results
                           /\ converting' = converting
                           /\ display' = display]_vars

\* C4: converting is true exactly when a submit request is outstanding or the
\* poll loop of the current round is running.
RoundInFlight ==
  \/ \E r \in Rounds : submit[r] = "inflight"
  \/ rounds > 0 /\ timer[rounds]

C4_ConvertingIffInFlight == converting <=> RoundInFlight

\* C5: every kind of submission failure leaves files empty, results empty and
\* converting false, and starts no interval.
C5_SubmitFailureResets ==
  [][\A r \in Rounds :
        ( /\ submit[r] = "inflight"
          /\ submit'[r] \in {"http-error", "body-error", "network-error"} )
        => /\ files' = <<>>
           /\ Results' = <<>>
           /\ converting' = FALSE
           /\ timer' = timer
           /\ ticks' = ticks]_vars

C5_Witness ==
  \E r \in Rounds : /\ submit[r] = "body-error"
                    /\ files = <<>> /\ Results = <<>> /\ ~converting
                    /\ ActiveTimers = {}

\* C6: a submit response whose results are all 'success' ends the round at
\* once: converting false, appState.results the response's results, results
\* section shown, no interval started and no status query issued, then or later.
C6_FastPathDone ==
  [][\A r \in Rounds :
        /\ ( /\ submit[r] = "inflight"
             /\ submit'[r] = "ok"
             /\ \A k \in 1..Len(heap'[r]) : heap'[r][k].status = "success" )
           => /\ converting' = FALSE
              /\ Results' = heap'[r]
              /\ display'.results /\ ~display'.progress
              /\ path'[r] = "fast"
              /\ timer' = timer
              /\ ticks' = ticks
        /\ path[r] = "fast" => /\ ~timer'[r]
                               /\ \A i \in 1..MaxResults : ~QueryIssued(r, i)]_vars

C6_Witness ==
  \E r \in Rounds : /\ path[r] = "fast"
                    /\ resultsRef = r
                    /\ Len(heap[r]) = MaxResults
                    /\ ~converting /\ display.results
                    /\ ~timer[r] /\ Suspended(r) = 0

\* C7: a status query is issued for a result only if that result is not yet
\* finished (its status is no successful terminal status) and has a fileId.
C7_QueryOnlyUnfinished ==
  [][\A r \in Rounds, i \in 1..MaxResults :
        QueryIssued(r, i) => /\ heap'[r][i].status \notin SuccessTerminal
                             /\ heap'[r][i].fileId # NoFileId]_vars

\* C8: when a callback of the poll loop ends, the displayed percentage is
\* round(100 * finished / total), finished being the number of results whose
\* status is a successful terminal status.
Finished(results) ==
  Cardinality({k \in 1..Len(results) : results[k].status \in SuccessTerminal})

C8_PercentageIsFinishedShare ==
  [][\A r \in Rounds :
        CallbackEnds(r) =>
          percentage' = (200 * Finished(heap'[r]) + Len(heap'[r])) \div (2 * Len(heap'[r]))]_vars

\* C9: removeFile with an index outside 0..length-1 leaves files unchanged;
\* with a valid index it removes exactly that element and keeps the order.
Without(arr, index) ==
  [k \in 1..(Len(arr) - 1) |-> IF k <= index THEN arr[k] ELSE arr[k + 1]]

C9_RemoveFileContract ==
  [][\A index \in (0 - MaxFiles - 1)..(MaxFiles + 1) :
        RemoveFile(index) =>
          IF index \in 0..(Len(files) - 1)
          THEN files' = Without(files, index)
          ELSE files' = files]_vars

\* C10: no two entries of files have the same name and size.
C10_NoDuplicateFiles ==
  \A j, k \in 1..Len(files) :
      (files[j].name = files[k].name /\ files[j].size = files[k].size) => j = k

\* the batches handed to addFiles
Batches == SeqsUpTo(Candidates, MaxBatch) \ {<<>>}

\* the candidates of a batch that are PDFs and whose (name, size) is not in
\* `existing`, in the order received
NovelPdfs(existing, batch) ==
  LET Novel(f) ==
        /\ f.type = "application/pdf"
        /\ \A k \in 1..Len(existing) :
              ~(existing[k].name = f.name /\ existing[k].size = f.size)
  IN  SelectSeq(batch, Novel)

\* C11: addFiles with a batch holding at least one PDF not yet in files sets
\* files to the previous files followed by exactly the PDFs of the batch that
\* were not in the previous files, in the order received.
C11_AddFilesAppendsNovel ==
  [][\A batch \in Batches :
        (NovelPdfs(files, batch) # <<>> /\ AddFiles(batch))
        => files' = files \o NovelPdfs(files, batch)]_vars

C11_Witness ==
  /\ Len(files) = 2
  /\ files[1].size # files[2].size
  /\ \A k \in 1..2 : files[k].type = "application/pdf"

\* C12: addFiles with a batch that holds no PDF, or only PDFs already in
\* files, leaves files, appState.results and converting unchanged.
C12_AddFilesRejects ==
  [][\A batch \in Batches :
        (NovelPdfs(files, batch) = <<>> /\ AddFiles(batch))
        => /\ files' = files
           /\ Results' = Results
           /\ converting' = converting]_vars

C12_Witness ==
  /\ Len(files) = 1
  /\ converting
  /\ \E batch \in Batches : NovelPdfs(files, batch) = <<>> /\ ENABLED AddFiles(batch)

\* C13: clearAllFiles on empty files changes nothing, whatever a confirmation
\* would answer; on non-empty files it empties files and appState.results
\* when the confirmation is accepted and changes nothing when it is declined.
C13_ClearAllFilesContract ==
  [][\A confirmed \in BOOLEAN :
        ClearAllFiles(confirmed) =>
          IF Len(files) = 0 \/ ~confirmed
          THEN UNCHANGED vars
          ELSE /\ files' = <<>>
               /\ Results' = <<>>
               /\ converting' = converting]_vars

C13_Witness ==
  /\ files = <<>> /\ Results = <<>>
  /\ display.results /\ ~display.upload
  /\ rounds > 0 /\ path[rounds] = "fast" /\ Len(heap[rounds]) > 0

\* C14: a convert action with files empty or converting true changes nothing
\* and issues no submit request; otherwise it sets converting, empties
\* appState.results and issues one submit request carrying every entry of
\* files; at most one submit request is outstanding at any time.
Outstanding == {r \in Rounds : submit[r] = "inflight"}

C14_ConvertContract ==
  [][/\ StartConversion =>
          IF Len(files) = 0 \/ converting
          THEN UNCHANGED vars
          ELSE /\ converting' = TRUE
               /\ Results' = <<>>
               /\ rounds' = rounds + 1
               /\ Outstanding' = Outstanding \cup {rounds'}
               /\ request'[rounds'] = files
     /\ Cardinality(Outstanding') <= 1]_vars

\* C15: downloadFile never changes files, appState.results or converting; it
\* triggers one download of results[index].fileId when there is one, and no
\* download otherwise.
C15_DownloadContract ==
  [][\A index \in 0..MaxResults :
        DownloadFile(index) =>
          /\ files' = files
          /\ Results' = Results
          /\ converting' = converting
          /\ IF index < Len(Results) /\ Results[index + 1].fileId # ""
             THEN downloads' = [downloads EXCEPT ![Results[index + 1].fileId] = @ + 1]
             ELSE downloads' = downloads]_vars

C15_Witness ==
  /\ downloads["id"] = 1 /\ downloads[""] = 0
  /\ \E k \in 1..Len(Results) : Results[k].fileId = ""
  /\ \E k \in 1..Len(Results) : Results[k].fileId = "id"

\* C16: the callbacks of one interval never overlap: no callback issues a
\* query or counts an answer while an earlier callback of the same interval
\* is still suspended at its query.
C16_NoOverlappingTicks == \A r \in Rounds : Suspended(r) <= 1

\* C17: when a status query fails, the result's status and the completed
\* counter stay as they are, the callback goes on to the next result that
\* needs a query, and the interval keeps running.
C17_QueryFailureSkipped ==
  [][\A r \in Rounds, i \in 1..MaxResults :
        StatusResponse(r, i, QueryFailed) =>
          /\ heap' = heap
          /\ completed' = completed
          /\ \A j \in (i + 1)..Len(heap[r]) :
                ( /\ heap[r][j].status # "success" /\ heap[r][j].fileId # ""
                  /\ \A k \in (i + 1)..(j - 1) :
                        heap[r][k].status = "success" \/ heap[r][k].fileId = "" )
                => QueryIssued(r, j)
          /\ timer'[r] = timer[r]]_vars

\* C18: the clear button is disabled exactly when files is empty, the convert
\* button exactly when files is empty or converting is true.
C18_ButtonsFollowState ==
  /\ buttons.clear <=> (Len(files) = 0)
  /\ buttons.convert <=> (Len(files) = 0 \/ converting)

C18_Witness ==
  /\ Len(files) > 0 /\ converting
  /\ ~buttons.clear /\ buttons.convert

\* C19: within one poll loop the completed counter never exceeds the number
\* of results, and the percentage a callback displays is within 0..100.
C19_CompletedWithinTotal ==
  [][\A r \in Rounds :
        path'[r] = "polled" =>
          /\ completed'[r] <= Len(heap'[r])
          /\ CallbackEnds(r) => percentage' \in 0..100]_vars

\* C20: at most one interval is active; an interval is active only while
\* converting is true for the round that started it, with that round's
\* results in appState (so none survives a reset, a clear or a later convert).
C20_OneTimerWhileConverting ==
  /\ Cardinality(ActiveTimers) <= 1
  /\ \A r \in ActiveTimers : converting /\ r = rounds /\ resultsRef = r

====
